---- MODULE Spec2Model ----
(***************************************************************************)
(* Marksheet Analytics: the batch orchestrator (App.handleAnalyze), the    *)
(* aggregation engine (App.calculateClassAverage), the average-score       *)
(* helpers (App.calculateAverageScore, Dashboard.averageScore), the        *)
(* extraction client (analyzeMarksheet) and the ImageUploader.             *)
(*                                                                         *)
(* JavaScript strings are sequences of one-character strings, so that      *)
(* trim, toLowerCase, toUpperCase, charAt and slice are computed.          *)
(* An optional value (undefined / null / absent field) is <<>>, a present  *)
(* value v is <<v>>.                                                       *)
(***************************************************************************)
EXTENDS Integers, Sequences, FiniteSets, TLC

VARIABLES
    images,             \* ImageUploader: useState<string[]> (data URLs)
    pendingReads,       \* ImageUploader: FileReader batches not yet resolved
    results,            \* App: useState<AnalysisResult[]>
    activeResultIndex,  \* App: useState<number>, -1 is the class average
    classAverageData,   \* App: useState<AnalysisResult | null>
    processingState,    \* App: useState<ProcessingState>
    pc,                 \* handleAnalyze: "idle", "awaiting" (at await Promise.all), "done"
    batch,              \* handleAnalyze: its argument images (raw base64 payloads)
    outcomes,           \* handleAnalyze: one slot per analysisPromises[i]
    settleOrder,        \* order in which the slots settled (indices)
    successfulResults,  \* handleAnalyze: local successfulResults
    failureCount,       \* handleAnalyze: local failureCount
    callLog,            \* arguments of the analyzeMarksheet invocations of this submission
    aggCalls,           \* calculateClassAverage invocations of this submission
    lastCaught,         \* the error analyzeMarksheet's catch received for the call settled last
    aggInput,           \* argument of a direct call of calculateClassAverage
    aggOutput,          \* what that call produced
    avgInput,           \* argument of the average-score helpers
    avgOutput           \* what the two helpers produced

vars == << images, pendingReads, results, activeResultIndex, classAverageData,
           processingState, pc, batch, outcomes, settleOrder, successfulResults,
           failureCount, callLog, aggCalls, lastCaught, aggInput, aggOutput, avgInput,
           avgOutput >>

uploaderVars == << images, pendingReads >>
appVars == << results, activeResultIndex, classAverageData, processingState >>
frameVars == << pc, batch, outcomes, settleOrder, successfulResults, failureCount,
                callLog, aggCalls, lastCaught >>
aggVars == << aggInput, aggOutput >>
avgVars == << avgInput, avgOutput >>

(***************************************************************************)
(* Bounds of the model.                                                    *)
(***************************************************************************)
MaxImages == 3
MaxPendingReads == 1
MaxResults == 3
MaxSubjects == 3

None == << >>
Some(v) == << v >>

Min(S) == CHOOSE x \in S : \A y \in S : x <= y
Max(S) == CHOOSE x \in S : \A y \in S : x >= y

(***************************************************************************)
(* JavaScript string and number primitives.                                *)
(***************************************************************************)
UpperCase == << "A", "C", "D", "E", "H", "I", "L", "M", "N", "O", "S", "T", "U" >>
LowerCase == << "a", "c", "d", "e", "h", "i", "l", "m", "n", "o", "s", "t", "u" >>
WhiteSpace == { " ", "\t" }

toLowerCaseChar(c) ==
    IF \E i \in 1..Len(UpperCase) : UpperCase[i] = c
    THEN LowerCase[CHOOSE i \in 1..Len(UpperCase) : UpperCase[i] = c]
    ELSE c

toUpperCaseChar(c) ==
    IF \E i \in 1..Len(LowerCase) : LowerCase[i] = c
    THEN UpperCase[CHOOSE i \in 1..Len(LowerCase) : LowerCase[i] = c]
    ELSE c

\* String.prototype.toLowerCase
toLowerCase(s) == [i \in 1..Len(s) |-> toLowerCaseChar(s[i])]

\* String.prototype.trim
trim(s) ==
    LET kept == { i \in 1..Len(s) : s[i] \notin WhiteSpace }
    IN  IF kept = {} THEN << >> ELSE SubSeq(s, Min(kept), Max(kept))

\* Math.round(num / den) for den > 0: the nearest integer, a tie going up
MathRound(num, den) == (2 * num + den) \div (2 * den)

\* Math.max(a, b)
MathMax(a, b) == IF a >= b THEN a ELSE b

(***************************************************************************)
(* types.ts: SubjectScore and AnalysisResult.  The fields a run-time value  *)
(* may lack (fullMarks?, and subjects of an unvalidated JSON.parse result)  *)
(* are optional values.                                                    *)
(***************************************************************************)
SubjectScore(name, score, fullMarks) ==
    [subject |-> name, score |-> score, fullMarks |-> fullMarks]

AnalysisResult(name, subjects, obtained, possible, percentage, summary, feedback) ==
    [studentName |-> name, subjects |-> subjects, totalObtained |-> obtained,
     totalPossible |-> possible, percentage |-> percentage, grade |-> "",
     summary |-> summary, feedback |-> feedback]

(***************************************************************************)
(* App.calculateAverageScore and Dashboard.averageScore.                   *)
(***************************************************************************)
RECURSIVE SumScores(_)
\* subjects.reduce((sum, sub) => sum + sub.score, 0)
SumScores(subjects) ==
    IF subjects = << >> THEN 0
    ELSE subjects[1].score + SumScores(Tail(subjects))

\* a plausible slip of calculateAverageScore: the mean truncated, not rounded
calculateAverageScoreTruncated(subjects) ==
    IF subjects = None \/ Len(subjects[1]) = 0 THEN 0
    ELSE SumScores(subjects[1]) \div Len(subjects[1])

\* App.calculateAverageScore(subjects); subjects is an optional array
calculateAverageScore(subjects) ==
    IF subjects = None \/ Len(subjects[1]) = 0 THEN 0
    ELSE MathRound(SumScores(subjects[1]), Len(subjects[1]))

\* a plausible slip of Dashboard.averageScore: Math.floor for Math.round
averageScoreFloor(data) ==
    IF data.subjects = None \/ Len(data.subjects[1]) = 0 THEN 0
    ELSE SumScores(data.subjects[1]) \div Len(data.subjects[1])

\* Dashboard: const averageScore = useMemo(...) over the prop data
averageScore(data) ==
    IF data.subjects = None \/ Len(data.subjects[1]) = 0 THEN 0
    ELSE MathRound(SumScores(data.subjects[1]), Len(data.subjects[1]))

(***************************************************************************)
(* App.calculateClassAverage.  subjectMap is a JavaScript Map: a sequence  *)
(* of entries in insertion order, at most one per key.                     *)
(***************************************************************************)
\* a plausible slip of normKey: lowercased but not trimmed
normKeyUntrimmed(sub) == toLowerCase(sub.subject)

\* a plausible slip of normKey: trimmed but not lowercased
normKeyCaseSensitive(sub) == trim(sub.subject)

\* const normKey = sub.subject.trim().toLowerCase()
normKey(sub) == toLowerCase(trim(sub.subject))

\* sub.fullMarks || 100 : undefined and 0 are both falsy
fullMarksOr100(sub) ==
    IF sub.fullMarks = None \/ sub.fullMarks[1] = 0 THEN 100 ELSE sub.fullMarks[1]

\* subjectMap.get(key): the index of the entry, 0 when there is none
MapIndex(subjectMap, key) ==
    IF \E i \in 1..Len(subjectMap) : subjectMap[i].key = key
    THEN CHOOSE i \in 1..Len(subjectMap) : subjectMap[i].key = key
    ELSE 0

\* a plausible slip of nextFullMarks: the first occurrence's scale is kept
nextFullMarksFirstSeen(current, sub) == current.fullMarks

\* fullMarks: Math.max(current.fullMarks, sub.fullMarks || 100)
nextFullMarks(current, sub) == MathMax(current.fullMarks, fullMarksOr100(sub))

\* the body of res.subjects.forEach(sub => ...)
accumulateSubject(subjectMap, sub) ==
    LET key == normKey(sub)
        i == MapIndex(subjectMap, key)
        current == IF i > 0 THEN subjectMap[i]
                   ELSE [key |-> key, total |-> 0, count |-> 0,
                         fullMarks |-> fullMarksOr100(sub)]
        entry == [key |-> key,
                  total |-> current.total + sub.score,
                  count |-> current.count + 1,
                  fullMarks |-> nextFullMarks(current, sub)]
    IN  IF i > 0 THEN [subjectMap EXCEPT ![i] = entry]
        ELSE Append(subjectMap, entry)

RECURSIVE accumulateSubjects(_, _)
accumulateSubjects(subjectMap, subjects) ==
    IF subjects = << >> THEN subjectMap
    ELSE accumulateSubjects(accumulateSubject(subjectMap, subjects[1]), Tail(subjects))

RECURSIVE buildSubjectMap(_, _)
\* results.forEach(res => res.subjects.forEach(...)) from the map so far
buildSubjectMap(subjectMap, rs) ==
    IF rs = << >> THEN subjectMap
    ELSE buildSubjectMap(accumulateSubjects(subjectMap, rs[1].subjects[1]), Tail(rs))

RECURSIVE SumField(_, _)
\* totalObtainedSum / totalPossibleSum
SumField(rs, field) ==
    IF rs = << >> THEN 0 ELSE rs[1][field] + SumField(Tail(rs), field)

\* a plausible slip of displayName: the key is shown as it is
displayNameOfKey(key) == key

\* key.charAt(0).toUpperCase() + key.slice(1)
displayName(key) ==
    IF key = << >> THEN << >> ELSE << toUpperCaseChar(key[1]) >> \o Tail(key)

\* Array.from(subjectMap.entries()).map(([key, val]) => ...)
avgSubjectsOf(subjectMap) ==
    [i \in 1..Len(subjectMap) |->
        SubjectScore(displayName(subjectMap[i].key),
                     MathRound(subjectMap[i].total, subjectMap[i].count),
                     Some(subjectMap[i].fullMarks))]

ClassAverageFeedback ==
    << "Review subjects with averages below 60 for curriculum adjustments.",
       "Identify top performers for advanced modules.",
       "Organize remedial sessions for students significantly below the class average." >>

\* The error calculateClassAverage throws, None when it returns: the guard of
\* its first line, or the TypeError of res.subjects.forEach on a record that
\* has no subjects array.
classAverageError(rs) ==
    IF Len(rs) = 0 THEN Some("No results to average")
    ELSE IF \E i \in 1..Len(rs) : rs[i].subjects = None
    THEN Some("Cannot read properties of undefined (reading 'forEach')")
    ELSE None

\* a plausible slip of meanOfTotals: the total rebuilt from the averaged subjects
meanOfTotalsFromSubjects(rs, field) ==
    IF field = "totalObtained"
    THEN SumScores(avgSubjectsOf(buildSubjectMap(<< >>, rs)))
    ELSE Len(buildSubjectMap(<< >>, rs)) * 100

\* Math.round(totalObtainedSum / results.length), and the same for totalPossible
meanOfTotals(rs, field) == MathRound(SumField(rs, field), Len(rs))

\* The record calculateClassAverage returns when it does not throw.
calculateClassAverage(rs) ==
    LET avgSubjects == avgSubjectsOf(buildSubjectMap(<< >>, rs))
        avgPercentage == calculateAverageScore(Some(avgSubjects))
    IN  AnalysisResult("Class Average", Some(avgSubjects),
                       meanOfTotals(rs, "totalObtained"),
                       meanOfTotals(rs, "totalPossible"),
                       avgPercentage,
                       [template |-> "aggregated", count |-> Len(rs),
                        average |-> avgPercentage],
                       ClassAverageFeedback)

(***************************************************************************)
(* services/geminiService: analyzeMarksheet.  The model's reply is either  *)
(* a failed call, an empty text, a text JSON.parse rejects, or a text it    *)
(* parses; the parsed value is cast to AnalysisResult without validation.  *)
(***************************************************************************)
Math == << "M", "a", "t", "h" >>
MathLower == << "m", "a", "t", "h" >>
MathPadded == << " ", "m", "a", "t", "h", " " >>
MathUpper == << "M", "A", "T", "H" >>
Maths == << "M", "a", "t", "h", "s" >>
Science == << "S", "c", "i", "e", "n", "c", "e" >>

AISummary == [template |-> "model", count |-> 0, average |-> 0]

StudentA ==
    AnalysisResult("A", Some(<< SubjectScore(Math, 80, Some(100)),
                                SubjectScore(Science, 90, Some(100)) >>),
                   170, 200, 85, AISummary, << "a" >>)
StudentB ==
    AnalysisResult("B", Some(<< SubjectScore(MathLower, 60, None),
                                SubjectScore(Science, 70, None) >>),
                   130, 200, 65, AISummary, << "b" >>)
\* "return null values or empty arrays": a reply whose subjects is null
NotAMarksheet ==
    AnalysisResult("", None, 0, 0, 0, AISummary, << >>)

ExtractedRecords == { StudentA, StudentB, NotAMarksheet }

AIReplies ==
    { [kind |-> k, value |-> None] : k \in { "callFailed", "emptyText", "badJson" } }
    \cup { [kind |-> "json", value |-> Some(r)] : r \in ExtractedRecords }

ProcessError == "Failed to process marksheet. Please ensure the image is clear and try again."

\* what analyzeMarksheet's catch (error) receives, and logs, for a reply:
\* the rejection of generateContent, the Error of the empty-text check, or
\* the SyntaxError of JSON.parse; None when the try block returns
caughtError(reply) ==
    CASE reply.kind = "callFailed" -> Some("generateContent request failed")
      [] reply.kind = "emptyText" -> Some("No response from AI")
      [] reply.kind = "badJson" -> Some("Unexpected token in JSON")
      [] OTHER -> None

\* analyzeMarksheet: the settled promise for a reply of the model
analyzeMarksheet(reply) ==
    IF reply.kind = "json"
    THEN [status |-> "fulfilled", value |-> reply.value, reason |-> ""]
    ELSE [status |-> "rejected", value |-> None, reason |-> ProcessError]

Pending == [status |-> "pending", value |-> None, reason |-> ""]

(***************************************************************************)
(* App: ProcessingState and handleAnalyze.                                 *)
(***************************************************************************)
Msg(text, succeeded, failed) ==
    Some([text |-> text, succeeded |-> succeeded, failed |-> failed])

ProcessingState(status, message) == [status |-> status, message |-> message]

InitializingMsg == Msg("Initializing batch analysis...", 0, 0)
RetryMsg ==
    Msg("Failed to analyze documents. Please check image quality and try again.", 0, 0)
ProcessedMsg(k, f) == Msg("Processed ${k} documents. ${f} failed.", k, f)

\* isLoading={processingState.status === 'processing'}
isLoading == processingState.status = "processing"

\* a plausible slip of analysisCalls: the first image is never sent
analysisCallsSkipFirst(imgs) ==
    [k \in 1..(Len(imgs) - 1) |-> [idx |-> k + 1, img |-> imgs[k + 1]]]

\* images.map((img, idx) => analyzeMarksheet(img)): the calls issued, in order
analysisCalls(imgs) == [i \in 1..Len(imgs) |-> [idx |-> i, img |-> imgs[i]]]

\* a plausible slip of allSettled: Promise.race, the first settled call wins
anySettled(slots) == \E i \in DOMAIN slots : slots[i].status # "pending"

\* a plausible slip of allSettled: a join that resumes only when every call
\* succeeded (no .catch wrapper and a rejection left unhandled)
allFulfilled(slots) == \A i \in DOMAIN slots : slots[i].status = "fulfilled"

\* await Promise.all(analysisPromises): every promise is wrapped by
\* .then/.catch, so none rejects and all must settle
allSettled(slots) == \A i \in DOMAIN slots : slots[i].status # "pending"

\* a plausible slip of awaitedOutcomes: outcomes pushed as they arrive
outcomesAsSettled(slots, order) == [k \in 1..Len(order) |-> slots[order[k]]]

\* const outcomes = await Promise.all(...): the outcomes in input order
awaitedOutcomes(slots, order) == [i \in 1..Len(slots) |-> slots[i]]

RECURSIVE fulfilledValues(_)
\* outcomes.forEach: successfulResults.push(outcome.value)
fulfilledValues(outs) ==
    IF outs = << >> THEN << >>
    ELSE IF outs[1].status = "fulfilled"
         THEN << outs[1].value[1] >> \o fulfilledValues(Tail(outs))
         ELSE fulfilledValues(Tail(outs))

RECURSIVE notFulfilledCount(_)
\* outcomes.forEach: else failureCount++
notFulfilledCount(outs) ==
    IF outs = << >> THEN 0
    ELSE (IF outs[1].status = "fulfilled" THEN 0 ELSE 1) + notFulfilledCount(Tail(outs))

\* a plausible slip of hasSuccess: the aggregation is attempted for any batch
hasSuccessAlways(successful) == Len(successful) >= 0

\* if (successfulResults.length > 0)
hasSuccess(successful) == Len(successful) > 0

(***************************************************************************)
(* What App renders.  Dashboard reads data.subjects (its useMemo hooks and  *)
(* the spread in barData): a data prop that is undefined, or a record with  *)
(* no subjects array, throws during render and React unmounts the tree.    *)
(***************************************************************************)
\* activeResultIndex === -1 && classAverageData ? classAverageData : results[activeResultIndex]
dashboardData ==
    IF activeResultIndex = -1 /\ classAverageData # None THEN classAverageData
    ELSE IF activeResultIndex + 1 \in 1..Len(results)
         THEN Some(results[activeResultIndex + 1])
         ELSE None

\* {results.length > 0 && ( ... <Dashboard data={...} /> )}
renderThrows ==
    /\ Len(results) > 0
    /\ (dashboardData = None \/ dashboardData[1].subjects = None)

mounted == ~renderThrows

(***************************************************************************)
(* ImageUploader.                                                          *)
(***************************************************************************)
\* the file a pick selects (its bytes are opaque to the program)
Files == { "f1" }

\* reader.readAsDataURL(file): "data:<mime>;base64,<payload>", kept as the
\* parts a split at ',' yields
readAsDataURL(file) == << "data:image/jpeg;base64", file >>

\* img.split(',')[1]
rawImage(img) == img[2]

\* handleFileChange: the reads are started, setImages waits for all of them
handleFileChange ==
    /\ mounted /\ ~isLoading
    /\ Len(pendingReads) < MaxPendingReads
    /\ \E file \in Files :
         /\ Len(images) + Len(pendingReads) + 1 <= MaxImages
         /\ pendingReads' = Append(pendingReads, << readAsDataURL(file) >>)
    /\ UNCHANGED << images, appVars, frameVars, aggVars, avgVars >>

\* Promise.all(promises).then(newImages => setImages(prev => [...prev, ...newImages]))
fileReadsDone ==
    /\ mounted
    /\ \E k \in 1..Len(pendingReads) :
         /\ images' = images \o pendingReads[k]
         /\ pendingReads' = SubSeq(pendingReads, 1, k - 1)
                            \o SubSeq(pendingReads, k + 1, Len(pendingReads))
    /\ UNCHANGED << appVars, frameVars, aggVars, avgVars >>

\* removeImage(index): the button is rendered only when !isLoading
removeImage ==
    /\ mounted /\ ~isLoading
    /\ \E index \in 1..Len(images) :
         images' = SubSeq(images, 1, index - 1) \o SubSeq(images, index + 1, Len(images))
    /\ UNCHANGED << pendingReads, appVars, frameVars, aggVars, avgVars >>

\* Clear All: onClick={() => !isLoading && setImages([])}
clearAll ==
    /\ mounted /\ ~isLoading
    /\ Len(images) > 0
    /\ images' = << >>
    /\ UNCHANGED << pendingReads, appVars, frameVars, aggVars, avgVars >>

(***************************************************************************)
(* handleAnalyzeClick and handleAnalyze up to await Promise.all: the state  *)
(* is reset and every analyzeMarksheet call is issued.                     *)
(***************************************************************************)
\* a plausible slip of canAnalyze: the click handler tests the list only and
\* relies on nothing else to keep a second click out
canAnalyzeIgnoringLoading == Len(images) # 0

\* if (images.length === 0 || isLoading) return;
canAnalyze == ~(Len(images) = 0 \/ isLoading)

handleAnalyzeClick ==
    /\ mounted
    /\ canAnalyze
    /\ LET rawImages == [i \in 1..Len(images) |-> rawImage(images[i])]
       IN  /\ processingState' = ProcessingState("processing", InitializingMsg)
           /\ results' = << >>
           /\ classAverageData' = None
           /\ batch' = rawImages
           /\ callLog' = analysisCalls(rawImages)
           /\ outcomes' = [i \in 1..Len(rawImages) |-> Pending]
           /\ settleOrder' = << >>
           /\ successfulResults' = << >>
           /\ failureCount' = 0
           /\ aggCalls' = 0
           /\ lastCaught' = None
           /\ pc' = "awaiting"
    /\ UNCHANGED << uploaderVars, activeResultIndex, aggVars, avgVars >>

\* One analyzeMarksheet call settles; .then/.catch record it in its own slot.
settle ==
    /\ \E i \in DOMAIN outcomes, reply \in AIReplies :
         /\ outcomes[i].status = "pending"
         /\ outcomes' = [outcomes EXCEPT ![i] = analyzeMarksheet(reply)]
         /\ settleOrder' = Append(settleOrder, i)
         /\ lastCaught' = caughtError(reply)
    /\ UNCHANGED << uploaderVars, appVars, pc, batch, successfulResults, failureCount,
                    callLog, aggCalls, aggVars, avgVars >>

\* handleAnalyze after await Promise.all: partition, aggregate, publish.  The
\* state updates of one continuation are applied together.
finish ==
    /\ pc = "awaiting"
    /\ allSettled(outcomes)
    /\ LET outs == awaitedOutcomes(outcomes, settleOrder)
           successful == fulfilledValues(outs)
           failed == notFulfilledCount(outs)
           thrown == classAverageError(successful)
       IN  /\ successfulResults' = successful
           /\ failureCount' = failed
           /\ IF hasSuccess(successful)
              THEN /\ results' = successful
                   /\ aggCalls' = aggCalls + 1
                   /\ IF thrown = None
                      THEN /\ classAverageData' = Some(calculateClassAverage(successful))
                           /\ activeResultIndex' = -1
                           /\ processingState' =
                                ProcessingState("success",
                                    IF failed > 0 THEN ProcessedMsg(Len(successful), failed)
                                    ELSE None)
                      ELSE \* catch (err): err.message || '...'
                           /\ processingState' = ProcessingState("error", Msg(thrown[1], 0, 0))
                           /\ UNCHANGED << classAverageData, activeResultIndex >>
              ELSE /\ processingState' = ProcessingState("error", RetryMsg)
                   /\ UNCHANGED << results, classAverageData, activeResultIndex, aggCalls >>
    /\ pc' = "done"
    /\ UNCHANGED << uploaderVars, batch, outcomes, settleOrder, callLog, lastCaught,
                    aggVars, avgVars >>

\* onClick={() => setActiveResultIndex(idx)} of a student card
selectStudent ==
    /\ mounted
    /\ \E idx \in 0..(Len(results) - 1) : activeResultIndex' = idx
    /\ UNCHANGED << uploaderVars, results, classAverageData, processingState,
                    frameVars, aggVars, avgVars >>

\* onClick={() => setActiveResultIndex(-1)} of the class-average card
selectClassAverage ==
    /\ mounted
    /\ Len(results) > 0 /\ classAverageData # None
    /\ activeResultIndex' = -1
    /\ UNCHANGED << uploaderVars, results, classAverageData, processingState,
                    frameVars, aggVars, avgVars >>

Unused == << >>

AppIdle ==
    /\ images = << >>
    /\ pendingReads = << >>
    /\ results = << >>
    /\ activeResultIndex = -1
    /\ classAverageData = None
    /\ processingState = ProcessingState("idle", None)
    /\ pc = "idle"
    /\ batch = << >>
    /\ outcomes = << >>
    /\ settleOrder = << >>
    /\ successfulResults = << >>
    /\ failureCount = 0
    /\ callLog = << >>
    /\ aggCalls = 0
    /\ lastCaught = None

Init ==
    /\ AppIdle
    /\ aggInput = Unused /\ aggOutput = Unused
    /\ avgInput = Unused /\ avgOutput = Unused

Next ==
    \/ handleFileChange
    \/ fileReadsDone
    \/ removeImage
    \/ clearAll
    \/ handleAnalyzeClick
    \/ settle
    \/ finish
    \/ selectStudent
    \/ selectClassAverage

Spec == Init /\ [][Next]_vars

\* The resumption of handleAnalyze after its await, seen on pc alone: under
\* [Next]_vars the only step from "awaiting" to "done" is finish, and finish
\* is enabled exactly when every slot has settled.
resume ==
    /\ pc = "awaiting"
    /\ allSettled(outcomes)
    /\ pc' = "done"

\* Every extraction call settles in the end, and the event loop runs the
\* continuation of handleAnalyze once its await can resume.
SpecLive == Init /\ [][Next]_vars /\ WF_vars(settle) /\ WF_pc(resume)

(***************************************************************************)
(* calculateClassAverage as a function: SpecAgg builds an argument from     *)
(* sample records and calls it.                                            *)
(***************************************************************************)
StudentC ==
    AnalysisResult("C", Some(<< SubjectScore(MathPadded, 71, Some(150)),
                                SubjectScore(Maths, 50, Some(50)) >>),
                   121, 200, 61, AISummary, << "c" >>)
StudentD ==
    AnalysisResult("D", Some(<< SubjectScore(MathUpper, 0, Some(0)) >>),
                   0, 0, 0, AISummary, << "d" >>)
StudentE ==
    AnalysisResult("E", Some(<< >>), 1, 2, 50, AISummary, << >>)

SocialStudiesTyped ==
    << "\t", "S", "O", "C", "I", "A", "L", " ", "S", "t", "u", "d", "i", "e", "s" >>
StudentF ==
    AnalysisResult("F", Some(<< SubjectScore(SocialStudiesTyped, 40, None) >>),
                   40, 100, 40, AISummary, << "f" >>)

SampleResults ==
    { StudentA, StudentB, StudentC, StudentD, StudentE, StudentF, NotAMarksheet }

NotCalled == [called |-> FALSE, error |-> None, value |-> None]

InitAgg ==
    /\ AppIdle
    /\ aggInput = << >> /\ aggOutput = NotCalled
    /\ avgInput = Unused /\ avgOutput = Unused

\* the caller builds the argument
aggPush ==
    /\ ~aggOutput.called
    /\ Len(aggInput) < MaxResults
    /\ \E r \in SampleResults : aggInput' = Append(aggInput, r)
    /\ UNCHANGED << aggOutput, uploaderVars, appVars, frameVars, avgVars >>

\* calculateClassAverage(aggInput): throws or returns
aggCall ==
    /\ ~aggOutput.called
    /\ aggOutput' =
         IF classAverageError(aggInput) # None
         THEN [called |-> TRUE, error |-> classAverageError(aggInput), value |-> None]
         ELSE [called |-> TRUE, error |-> None,
               value |-> Some(calculateClassAverage(aggInput))]
    /\ UNCHANGED << aggInput, uploaderVars, appVars, frameVars, avgVars >>

NextAgg == aggPush \/ aggCall

SpecAgg == InitAgg /\ [][NextAgg]_vars

(***************************************************************************)
(* The average-score helpers as functions: SpecAvg builds a subject list    *)
(* (or leaves it undefined) and calls both.                                *)
(***************************************************************************)
ScorePool == { 0, 1, 70, 85, 90 }

AvgNotCalled == [called |-> FALSE, app |-> 0, dashboard |-> 0]

InitAvg ==
    /\ AppIdle
    /\ aggInput = Unused /\ aggOutput = Unused
    /\ avgInput = Some(<< >>) /\ avgOutput = AvgNotCalled

avgPush ==
    /\ ~avgOutput.called
    /\ avgInput # None
    /\ Len(avgInput[1]) < MaxSubjects
    /\ \E score \in ScorePool :
         avgInput' = Some(Append(avgInput[1], SubjectScore(Math, score, None)))
    /\ UNCHANGED << avgOutput, uploaderVars, appVars, frameVars, aggVars >>

\* a record whose subjects field is missing
avgUnset ==
    /\ ~avgOutput.called
    /\ avgInput = Some(<< >>)
    /\ avgInput' = None
    /\ UNCHANGED << avgOutput, uploaderVars, appVars, frameVars, aggVars >>

\* App computes calculateAverageScore(res.subjects), Dashboard its averageScore
avgCall ==
    /\ ~avgOutput.called
    /\ avgOutput' =
         [called |-> TRUE,
          app |-> calculateAverageScore(avgInput),
          dashboard |-> averageScore(AnalysisResult("S", avgInput, 0, 0, 0,
                                                    AISummary, << >>))]
    /\ UNCHANGED << avgInput, uploaderVars, appVars, frameVars, aggVars >>

NextAvg == avgPush \/ avgUnset \/ avgCall

SpecAvg == InitAvg /\ [][NextAvg]_vars

(***************************************************************************)
(* Properties of the batch orchestrator (Spec).                            *)
(***************************************************************************)
fulfilledSlots == { i \in DOMAIN outcomes : outcomes[i].status = "fulfilled" }
rejectedSlots == { i \in DOMAIN outcomes : outcomes[i].status = "rejected" }
pendingSlots == { i \in DOMAIN outcomes : outcomes[i].status = "pending" }

\* how often record r is among the fulfilled outcomes / in the sequence rs
TimesFulfilled(r) == Cardinality({ i \in fulfilledSlots : outcomes[i].value[1] = r })
TimesIn(rs, r) == Cardinality({ j \in 1..Len(rs) : rs[j] = r })

\* C1: once handleAnalyze has ended for a batch of N images with k >= 1
\* successful extraction calls, results holds exactly the k successful
\* records, the failure count is N - k, the status is 'success', and the
\* message reports k and N - k when N - k > 0 and is absent otherwise.
C1_MixedBatchIsSuccess ==
    (pc = "done" /\ Cardinality(fulfilledSlots) >= 1) =>
        LET k == Cardinality(fulfilledSlots)
            N == Len(batch)
        IN  /\ Len(results) = k
            /\ \A r \in ExtractedRecords : TimesIn(results, r) = TimesFulfilled(r)
            /\ failureCount = N - k
            /\ processingState.status = "success"
            /\ processingState.message =
                 (IF N - k > 0 THEN ProcessedMsg(k, N - k) ELSE None)

\* C2: once handleAnalyze has ended for a batch whose calls all failed, the
\* status is 'error' with the batch-level retry message, results is empty,
\* classAverageData is null and calculateClassAverage was not invoked.
C2_AllFailedIsBatchError ==
    (pc = "done" /\ Cardinality(rejectedSlots) = Len(batch)) =>
        /\ processingState = ProcessingState("error", RetryMsg)
        /\ results = << >>
        /\ classAverageData = None
        /\ aggCalls = 0

C2_Witness ==
    /\ pc = "done"
    /\ Len(batch) >= 2
    /\ Cardinality(rejectedSlots) = Len(batch)
    /\ processingState.status = "error"

\* C3: while a call of the submitted batch is still pending, nothing is
\* published: the status is 'processing', results is empty and
\* classAverageData is null, whatever the calls settled so far did.
C3_NothingPublishedWhilePending ==
    (pendingSlots # {}) =>
        /\ processingState.status = "processing"
        /\ results = << >>
        /\ classAverageData = None

C3_Witness ==
    /\ pendingSlots # {}
    /\ rejectedSlots # {}
    /\ settleOrder # << >>
    /\ settleOrder[1] \in rejectedSlots
    /\ processingState.status = "processing"

\* C4: during a submission analyzeMarksheet has been invoked exactly once
\* for each image of the batch, with that image, and no further time, also
\* after a call has failed.
C4_OneCallPerImage ==
    (pc \in { "awaiting", "done" }) =>
        /\ Len(callLog) = Len(batch)
        /\ \A i \in 1..Len(batch) :
             /\ Cardinality({ c \in 1..Len(callLog) : callLog[c].idx = i }) = 1
             /\ \A c \in 1..Len(callLog) :
                  callLog[c].idx = i => callLog[c].img = batch[i]

C4_Witness ==
    /\ pc = "done"
    /\ Len(batch) >= 2
    /\ rejectedSlots # {}
    /\ fulfilledSlots # {}
    /\ Len(callLog) = Len(batch)

\* C5: whatever the order in which the calls completed, the batch ends with
\* the failure count equal to the number of failed calls and with the
\* successful results being the fulfilled values in the input order of
\* their images.
C5_OutcomeInInputOrder ==
    (pc = "done") =>
        /\ failureCount = Cardinality(rejectedSlots)
        /\ Len(successfulResults) = Cardinality(fulfilledSlots)
        /\ \E f \in [1..Len(successfulResults) -> fulfilledSlots] :
             /\ \A a, b \in 1..Len(successfulResults) : a < b => f[a] < f[b]
             /\ \A a \in 1..Len(successfulResults) :
                  successfulResults[a] = outcomes[f[a]].value[1]

C5_Witness ==
    /\ pc = "done"
    /\ Len(settleOrder) = 3
    /\ settleOrder[1] > settleOrder[2]
    /\ { settleOrder[1], settleOrder[2] } \subseteq fulfilledSlots
    /\ outcomes[settleOrder[1]].value # outcomes[settleOrder[2]].value
    /\ successfulResults[1] = outcomes[settleOrder[2]].value[1]
    /\ failureCount = 1

(***************************************************************************)
(* Properties of calculateClassAverage (SpecAgg).                          *)
(***************************************************************************)
aggReturned == aggOutput.called /\ aggOutput.error = None
aggRecord == aggOutput.value[1]
aggSubjects == aggRecord.subjects[1]

\* the subject occurrences of the argument: (result index, subject index)
Occurrences(rs) ==
    UNION { { << i, j >> : j \in 1..Len(rs[i].subjects[1]) } : i \in 1..Len(rs) }
OccurrenceAt(rs, p) == rs[p[1]].subjects[1][p[2]]

\* the normalization key of a subject name: trimmed, then lowercased
KeyOfName(name) == toLowerCase(trim(name))
KeysOf(rs) == { KeyOfName(OccurrenceAt(rs, p).subject) : p \in Occurrences(rs) }
GroupOf(rs, key) ==
    { p \in Occurrences(rs) : KeyOfName(OccurrenceAt(rs, p).subject) = key }

RECURSIVE SetSum(_, _, _)
\* the sum of field f over the occurrences G of rs
SetSum(rs, G, f) ==
    IF G = {} THEN 0
    ELSE LET p == CHOOSE q \in G : TRUE
         IN  OccurrenceAt(rs, p)[f] + SetSum(rs, G \ { p }, f)

\* r is sum / n rounded to the nearest integer, a tie going up
IsRounded(r, sum, n) == 2 * n * r - n <= 2 * sum /\ 2 * sum < 2 * n * r + n

FullMarksOrDefault(sub) == IF sub.fullMarks = None THEN 100 ELSE sub.fullMarks[1]

\* C7: every averaged subject's fullMarks is the maximum of its contributors'
\* fullMarks, only an absent fullMarks counting as 100.
C7_FullMarksIsMaxOfContributors ==
    aggReturned =>
        \A i \in 1..Len(aggSubjects) :
            LET G == GroupOf(aggInput, toLowerCase(aggSubjects[i].subject))
            IN  /\ \A p \in G :
                     aggSubjects[i].fullMarks[1] >= FullMarksOrDefault(OccurrenceAt(aggInput, p))
                /\ \E p \in G :
                     aggSubjects[i].fullMarks[1] = FullMarksOrDefault(OccurrenceAt(aggInput, p))

RECURSIVE TotalOf(_, _)
TotalOf(rs, f) == IF rs = << >> THEN 0 ELSE Head(rs)[f] + TotalOf(Tail(rs), f)

\* C8: a returned aggregate has totalObtained and totalPossible equal to the
\* rounded means of the inputs' totalObtained and totalPossible.
C8_TotalsAreRoundedMeans ==
    aggReturned =>
        /\ IsRounded(aggRecord.totalObtained, TotalOf(aggInput, "totalObtained"),
                     Len(aggInput))
        /\ IsRounded(aggRecord.totalPossible, TotalOf(aggInput, "totalPossible"),
                     Len(aggInput))

C8_Witness ==
    /\ aggReturned
    /\ Len(aggInput) = 2
    /\ TotalOf(aggInput, "totalObtained") = 171
    /\ aggRecord.totalObtained = 86
    /\ aggRecord.totalPossible = 101
    /\ aggRecord.totalObtained # SumScores(aggSubjects)

\* the averaged subjects as a set of (subject, score, fullMarks)
SubjectSet(rec) == { rec.subjects[1][i] : i \in 1..Len(rec.subjects[1]) }

SameAggregate(a, b) ==
    /\ SubjectSet(a) = SubjectSet(b)
    /\ Len(a.subjects[1]) = Len(b.subjects[1])
    /\ a.totalObtained = b.totalObtained
    /\ a.totalPossible = b.totalPossible
    /\ a.percentage = b.percentage

Permuted(rs, perm) == [i \in 1..Len(rs) |-> rs[perm[i]]]

\* C10: the aggregate of every permutation of the argument has the same set
\* of averaged subjects (score and fullMarks per subject) and the same
\* totalObtained, totalPossible and percentage.
C10_OrderInvariant ==
    aggReturned =>
        \A perm \in Permutations(1..Len(aggInput)) :
            /\ classAverageError(Permuted(aggInput, perm)) = None
            /\ SameAggregate(aggRecord, calculateClassAverage(Permuted(aggInput, perm)))

C10_Witness ==
    /\ aggReturned
    /\ Len(aggInput) = 3
    /\ \E perm \in Permutations(1..Len(aggInput)) :
         LET other == calculateClassAverage(Permuted(aggInput, perm))
         IN  /\ other.subjects # aggRecord.subjects
             /\ SameAggregate(aggRecord, other)
    /\ \E i \in 1..Len(aggSubjects) : aggSubjects[i].fullMarks[1] = 150

(***************************************************************************)
(* Properties of the average-score helpers (SpecAvg).                      *)
(***************************************************************************)
avgScores == [i \in 1..Len(avgInput[1]) |-> avgInput[1][i].score]

RECURSIVE SeqSum(_)
SeqSum(xs) == IF xs = << >> THEN 0 ELSE Head(xs) + SeqSum(Tail(xs))

\* C9: calculateAverageScore returns 0 for a missing or empty subject list
\* and otherwise the mean of the scores rounded to the nearest integer
\* ([70, 85, 90] gives 82), and Dashboard's averageScore returns the same.
C9_AverageScore ==
    avgOutput.called =>
        /\ (avgInput = None \/ avgInput = Some(<< >>)) => avgOutput.app = 0
        /\ (avgInput # None /\ avgInput # Some(<< >>)) =>
               IsRounded(avgOutput.app, SeqSum(avgScores), Len(avgScores))
        /\ (avgInput # None /\ avgScores = << 70, 85, 90 >>) => avgOutput.app = 82
        /\ avgOutput.dashboard = avgOutput.app

C9_Witness ==
    /\ avgOutput.called
    /\ avgInput # None
    /\ avgScores = << 70, 85, 90 >>
    /\ avgOutput.app = 82
    /\ avgOutput.dashboard = 82

(***************************************************************************)
(* Further properties of calculateClassAverage (SpecAgg).                  *)
(***************************************************************************)
aggScores == [i \in 1..Len(aggSubjects) |-> aggSubjects[i].score]

\* C11: the percentage of a returned aggregate is the rounded mean of the
\* scores of the averaged subjects it returns, and 0 when it returns none;
\* totalObtained and totalPossible play no part in it.
C11_PercentageIsMeanOfAveragedScores ==
    aggReturned =>
        /\ Len(aggSubjects) = 0 => aggRecord.percentage = 0
        /\ Len(aggSubjects) > 0 =>
               IsRounded(aggRecord.percentage, SeqSum(aggScores), Len(aggScores))

C11_Witness ==
    /\ aggReturned
    /\ Len(aggSubjects) > 0
    /\ aggRecord.totalPossible > 0
    /\ IsRounded(aggRecord.percentage, SeqSum(aggScores), Len(aggScores))
    /\ ~IsRounded(aggRecord.percentage, 100 * aggRecord.totalObtained,
                  aggRecord.totalPossible)

\* the two student results of the end-to-end scenario
ScenarioFirst ==
    << SubjectScore(<< "M", "a", "t", "h" >>, 80, Some(100)),
       SubjectScore(<< "S", "c", "i", "e", "n", "c", "e" >>, 90, Some(100)) >>
ScenarioSecond ==
    << SubjectScore(<< "m", "a", "t", "h" >>, 60, None),
       SubjectScore(<< "S", "c", "i", "e", "n", "c", "e" >>, 70, None) >>

ScenarioCalled ==
    /\ aggOutput.called
    /\ Len(aggInput) = 2
    /\ aggInput[1].subjects = Some(ScenarioFirst)
    /\ aggInput[2].subjects = Some(ScenarioSecond)

\* C12: aggregating {Math: 80/100, Science: 90/100} and {math: 60,
\* Science: 70} (no fullMarks) returns exactly the two averaged subjects
\* 'Math' 70 of 100 and 'Science' 80 of 100, and the percentage 75.
C12_EndToEndScenario ==
    ScenarioCalled =>
        /\ aggOutput.error = None
        /\ aggSubjects =
             << SubjectScore(<< "M", "a", "t", "h" >>, 70, Some(100)),
                SubjectScore(<< "S", "c", "i", "e", "n", "c", "e" >>, 80, Some(100)) >>
        /\ aggRecord.percentage = 75

C12_Witness ==
    /\ ScenarioCalled
    /\ aggReturned
    /\ Len(aggSubjects) = 2
    /\ aggRecord.percentage = 75

(***************************************************************************)
(* Further properties of the batch orchestrator and the uploader (Spec).   *)
(***************************************************************************)
lastSettled == settleOrder[Len(settleOrder)]

\* C13: the reason captured for a failed extraction is the underlying cause
\* of that failure (the error the extraction client caught), so that an
\* empty reply, an unparseable reply and a failed call are told apart.
C13_ReasonCarriesCause ==
    (settleOrder # << >> /\ lastSettled \in rejectedSlots) =>
        /\ lastCaught # None
        /\ outcomes[lastSettled].reason = lastCaught[1]

(***************************************************************************)
(* calculateClassAverage: failure and display labels (SpecAgg).            *)
(***************************************************************************)
\* C14: calculateClassAverage called with an empty sequence fails and
\* returns no record; called with a sequence of length >= 1 it returns a
\* record and does not fail.
C14_FailsOnlyOnEmptyInput ==
    aggOutput.called =>
        /\ Len(aggInput) = 0 => (aggOutput.error # None /\ aggOutput.value = None)
        /\ Len(aggInput) >= 1 => (aggOutput.error = None /\ aggOutput.value # None)

\* the first character uppercased, the others as they are in the key
LabelOfKey(key) ==
    [j \in 1..Len(key) |-> IF j = 1 THEN toUpperCaseChar(key[j]) ELSE key[j]]

SocialStudiesKey ==
    << "s", "o", "c", "i", "a", "l", " ", "s", "t", "u", "d", "i", "e", "s" >>
SocialStudiesLabel ==
    << "S", "o", "c", "i", "a", "l", " ", "s", "t", "u", "d", "i", "e", "s" >>

C16_BatchTerminates ==
    /\ (processingState.status = "processing")
           ~> (processingState.status \in { "success", "error" })
    /\ [](processingState.status = "processing" => pc = "awaiting")

C16_Witness ==
    /\ pc = "done"
    /\ Len(batch) = 3
    /\ rejectedSlots # {}
    /\ fulfilledSlots # {}
    /\ processingState.status \in { "success", "error" }

(***************************************************************************)
(* Submissions seen from the state: a step that leaves handleAnalyze at its *)
(* await with a fresh batch.                                               *)
(***************************************************************************)
Submitted ==
    /\ pc' = "awaiting"
    /\ \/ pc # "awaiting"
       \/ Len(settleOrder') < Len(settleOrder)
       \/ batch' # batch

\* C17: onAnalyze is called only with a non-empty image list and while the
\* status is not 'processing'; no batch is empty and handleAnalyze is never
\* started again before the previous submission reached 'success' or 'error'.
C17_OneNonEmptyBatchInFlight ==
    [][Submitted =>
          /\ Len(images) >= 1
          /\ Len(batch') = Len(images)
          /\ processingState.status # "processing"
          /\ pc # "awaiting"
          /\ pc = "done" => processingState.status \in { "success", "error" }]_vars

C17_Witness ==
    /\ pc = "awaiting"
    /\ Len(batch) >= 1
    /\ activeResultIndex >= 0
    /\ pendingSlots # {}

(***************************************************************************)
(* Selection and aggregate against the current results.                    *)
(***************************************************************************)
\* C18: whenever results is non-empty the selected record exists: either
\* activeResultIndex = -1 and classAverageData is non-null, or
\* 0 <= activeResultIndex < length(results); the aggregate is told from the
\* individuals by the index -1 alone.
C18_SelectedRecordExists ==
    Len(results) > 0 =>
        \/ activeResultIndex = -1 /\ classAverageData # None
        \/ 0 <= activeResultIndex /\ activeResultIndex < Len(results)

\* C19: classAverageData is non-null exactly when results is non-empty, and
\* when non-null it is the aggregate of the current results; a submission
\* clears both before any of its calls settles.
C19_AggregateMatchesResults ==
    /\ classAverageData # None <=> Len(results) > 0
    /\ classAverageData # None =>
           classAverageData[1] = calculateClassAverage(results)
    /\ (pc = "awaiting") => (results = << >> /\ classAverageData = None)

====
